---- MODULE Spec2Model ----
(***************************************************************************)
(* A model of @nicotordev/fetch-client: the FetchClient class of           *)
(* src/src/index.ts (the recursive serializer, the response handler and    *)
(* the five verb methods) and the FetchClientError class of                *)
(* src/unnamed/part_000.                                                   *)
(*                                                                         *)
(* JavaScript values are records tagged by the field t.  A primitive       *)
(* carries its content; a composite is a reference [t |-> "ref", id |-> i] *)
(* into a heap, so that identity (the WeakSet `seen`) and structure are    *)
(* kept apart and a value can contain itself.                              *)
(***************************************************************************)
EXTENDS Integers, Sequences, FiniteSets, TLC

VARIABLES heap, phase, root, result, calls, fetchLog

vars == <<heap, phase, root, result, calls, fetchLog>>

-----------------------------------------------------------------------------
(* Bounds of the serializer model *)

\* number of composites (objects, arrays, Maps, Sets) the program allocates
MaxNodes == 2
\* total number of values stored in all composites: a field or an element
\* is one, a Map entry is two (its key and its value)
MaxEdges == 2

-----------------------------------------------------------------------------
(* JavaScript values *)

Undefined == [t |-> "undefined"]
Null == [t |-> "null"]
Str(s) == [t |-> "string", s |-> s]
Num(n) == [t |-> "number", n |-> n]
Bool(b) == [t |-> "boolean", b |-> b]
BigInt(n) == [t |-> "bigint", n |-> n]
\* a Date holds a time value in milliseconds, or NaN (an invalid Date)
DateOf(ms) == [t |-> "date", ms |-> ms, nan |-> FALSE]
InvalidDate == [t |-> "date", ms |-> 0, nan |-> TRUE]
Ref(i) == [t |-> "ref", id |-> i]
\* an accessor property whose getter throws e
ThrowingGetter(e) == [t |-> "getter", error |-> e]

\* fresh values built by the serializer and by the JSON decoder: trees
Arr(items) == [t |-> "array", items |-> items]
Obj(fields) == [t |-> "object", fields |-> fields]
Field(k, v) == [key |-> k, val |-> v]

IsRef(v) == v.t = "ref"

\* a native error object, and the absence of one
Error(name, message) == [name |-> name, message |-> message]
NoError == Error("", "")

\* typeof obj === "object" && obj !== null, for a heap reference of kind k
KindOf(h, v) == IF IsRef(v) THEN h[v.id].kind ELSE "none"

-----------------------------------------------------------------------------
(* Conversions of the platform that the serializer calls *)

Digit(d) ==
    CASE d = 0 -> "0" [] d = 1 -> "1" [] d = 2 -> "2" [] d = 3 -> "3"
      [] d = 4 -> "4" [] d = 5 -> "5" [] d = 6 -> "6" [] d = 7 -> "7"
      [] d = 8 -> "8" [] d = 9 -> "9"

RECURSIVE NatToString(_)
NatToString(n) ==
    IF n < 10 THEN Digit(n) ELSE NatToString(n \div 10) \o Digit(n % 10)

\* BigInt.prototype.toString and Number-to-string for integers: decimal digits
IntToString(n) == IF n < 0 THEN "-" \o NatToString(0 - n) ELSE NatToString(n)

Pad2(n) == IF n < 10 THEN "0" \o NatToString(n) ELSE NatToString(n)
Pad3(n) == IF n < 10 THEN "00" \o NatToString(n)
           ELSE IF n < 100 THEN "0" \o NatToString(n) ELSE NatToString(n)

\* Date.prototype.toISOString for a time value within 1 January 1970 (UTC)
toISOString(ms) ==
    "1970-01-01T" \o Pad2(ms \div 3600000) \o ":"
        \o Pad2((ms \div 60000) % 60) \o ":"
        \o Pad2((ms \div 1000) % 60) \o "."
        \o Pad3(ms % 1000) \o "Z"

-----------------------------------------------------------------------------
(* The serializer: FetchClient.transformObjectForSerialization *)

CircularMarker == Str("[Circular Reference]")

\* the outcome of one (recursive) call: a returned value or a thrown error,
\* and the WeakSet `seen` as the call left it
Returned(v, seen) == [thrown |-> NoError, out |-> v, seen |-> seen]
Threw(e, seen) == [thrown |-> e, out |-> Undefined, seen |-> seen]

StackOverflow == Error("RangeError", "Maximum call stack size exceeded")
InvalidTime == Error("RangeError", "Invalid time value")

\* The engine's call stack is finite.  In a traversal of h that returns, the
\* plain composites on the stack are distinct (each is in `seen` once entered)
\* and no Map or Set repeats between two of them, so it nests at most
\* (plain + 1) * (maps and sets + 1) calls: only a recursion that would never
\* return goes deeper, and that one exhausts the stack.
CallStackLimit(h) ==
    LET keyed == {i \in DOMAIN h : h[i].kind \in {"map", "set"}}
    IN  (Cardinality(DOMAIN h \ keyed) + 1) * (Cardinality(keyed) + 1)

\* Object.entries(obj): the own enumerable string-keyed properties, each
\* read with [[Get]], so that a getter that throws makes Object.entries throw.
\* A FormData instance has no own properties.
ObjectEntries(node) ==
    IF node.kind # "object" THEN [thrown |-> NoError, fields |-> <<>>]
    ELSE IF \E i \in 1..Len(node.items) : node.items[i].val.t = "getter"
        THEN [thrown |-> node.items[CHOOSE i \in 1..Len(node.items) :
                                        /\ node.items[i].val.t = "getter"
                                        /\ \A j \in 1..(i - 1) :
                                                node.items[j].val.t # "getter"].val.error,
              fields |-> <<>>]
    ELSE [thrown |-> NoError, fields |-> node.items]

\* Array.from(map.entries()) flattened to key1, value1, key2, value2, ...
RECURSIVE MapEntriesFlat(_)
MapEntriesFlat(items) ==
    IF items = <<>> THEN <<>>
    ELSE <<items[1].key, items[1].val>> \o MapEntriesFlat(Tail(items))

RECURSIVE PairUp(_)
PairUp(outs) ==
    IF outs = <<>> THEN <<>>
    ELSE <<Arr(<<outs[1], outs[2]>>)>> \o PairUp(Tail(Tail(outs)))

FieldVals(fields) == [i \in 1..Len(fields) |-> fields[i].val]
Rekey(fields, outs) == [i \in 1..Len(fields) |-> Field(fields[i].key, outs[i])]

\* seen.has(obj)
SeenHas(seen, obj) == obj.id \in seen

SeenAddNothing(seen, obj) == seen

\* seen.add(obj)
SeenAdd(seen, obj) == seen \cup {obj.id}

RECURSIVE transformObjectForSerialization(_, _, _, _)
RECURSIVE TransformEach(_, _, _, _, _)

\* the callbacks of .map(...): the values of vals from position i on are
\* transformed in order, each call seeing the set the previous one left; a
\* throw ends the iteration
TransformEach(h, vals, i, seen, depth) ==
    IF i > Len(vals) THEN [thrown |-> NoError, outs |-> <<>>, seen |-> seen]
    ELSE LET r == transformObjectForSerialization(h, vals[i], seen, depth)
         IN  IF r.thrown # NoError THEN [thrown |-> r.thrown, outs |-> <<>>, seen |-> r.seen]
             ELSE LET rest == TransformEach(h, vals, i + 1, r.seen, depth)
                  IN  [thrown |-> rest.thrown,
                       outs |-> <<r.out>> \o rest.outs,
                       seen |-> rest.seen]

transformObjectForSerialization(h, obj, seen, depth) ==
    IF depth > CallStackLimit(h) THEN Threw(StackOverflow, seen)
    ELSE IF obj.t = "bigint" THEN Returned(Str(IntToString(obj.n)), seen)
    ELSE IF obj.t = "date" THEN
        IF obj.nan THEN Threw(InvalidTime, seen)
        ELSE Returned(Str(toISOString(obj.ms)), seen)
    ELSE IF KindOf(h, obj) = "map" THEN
        LET r == TransformEach(h, MapEntriesFlat(h[obj.id].items), 1, seen, depth + 1)
        IN  IF r.thrown # NoError THEN Threw(r.thrown, r.seen)
            ELSE Returned(Obj(<<Field("type", Str("Map")),
                                Field("value", Arr(PairUp(r.outs)))>>), r.seen)
    ELSE IF KindOf(h, obj) = "set" THEN
        LET r == TransformEach(h, h[obj.id].items, 1, seen, depth + 1)
        IN  IF r.thrown # NoError THEN Threw(r.thrown, r.seen)
            ELSE Returned(Obj(<<Field("type", Str("Set")),
                                Field("value", Arr(r.outs))>>), r.seen)
    ELSE IF ~IsRef(obj) THEN Returned(obj, seen)
    ELSE IF SeenHas(seen, obj) THEN Returned(CircularMarker, seen)
    ELSE IF KindOf(h, obj) = "array" THEN
        LET r == TransformEach(h, h[obj.id].items, 1, SeenAdd(seen, obj), depth + 1)
        IN  IF r.thrown # NoError THEN Threw(r.thrown, r.seen)
            ELSE Returned(Arr(r.outs), r.seen)
    ELSE
        LET entries == ObjectEntries(h[obj.id])
            r == TransformEach(h, FieldVals(entries.fields), 1,
                               SeenAdd(seen, obj), depth + 1)
        IN  IF entries.thrown # NoError
            THEN Threw(entries.thrown, SeenAdd(seen, obj))
            ELSE IF r.thrown # NoError THEN Threw(r.thrown, r.seen)
            ELSE Returned(Obj(Rekey(entries.fields, r.outs)), r.seen)

\* a top-level call: seen defaults to a new WeakSet
serialize(h, v) == transformObjectForSerialization(h, v, {}, 0)

-----------------------------------------------------------------------------
(* The program that builds a value and serializes it *)

Nodes == 1..MaxNodes
Kinds == {"object", "array", "map", "set"}
Keys == {"self", "x"}

\* what the program stores in a composite, and what it hands to the serializer
SlotValues == {Ref(i) : i \in Nodes} \cup {BigInt(7)}
RootValues ==
    {Ref(i) : i \in Nodes}
        \cup {Undefined, Null, Str("A"), Num(1), BigInt(-12),
              DateOf(3723004), InvalidDate}

Edges(h) ==
    LET RECURSIVE Sum(_)
        Sum(S) == IF S = {} THEN 0
                  ELSE LET i == CHOOSE j \in S : TRUE
                       IN  Len(h[i].items) * (IF h[i].kind = "map" THEN 2 ELSE 1)
                               + Sum(S \ {i})
    IN  Sum(DOMAIN h)

InitSerializer ==
    /\ heap \in [Nodes -> {[kind |-> k, items |-> <<>>] : k \in Kinds}]
    /\ phase = "build"
    /\ root = Undefined
    /\ result = Returned(Undefined, {})
    /\ calls = <<>>
    /\ fetchLog = <<>>

HasKey(items, k) == \E i \in 1..Len(items) : items[i].key = k
IndexOfKey(items, k) == CHOOSE i \in 1..Len(items) : items[i].key = k

\* [[Set]] on a property, Map.prototype.set: an existing key keeps its place
Put(items, k, v) ==
    IF HasKey(items, k)
    THEN [items EXCEPT ![IndexOfKey(items, k)] = Field(k, v)]
    ELSE Append(items, Field(k, v))

Store(i, items) ==
    /\ phase = "build"
    /\ heap' = [heap EXCEPT ![i].items = items]
    /\ Edges(heap') <= MaxEdges
    /\ UNCHANGED <<phase, root, result, calls, fetchLog>>

\* o[k] = v
SetField ==
    \E i \in Nodes, k \in Keys, v \in SlotValues :
        /\ heap[i].kind = "object"
        /\ Store(i, Put(heap[i].items, k, v))

\* a.push(v)
Push ==
    \E i \in Nodes, v \in SlotValues :
        /\ heap[i].kind = "array"
        /\ Store(i, Append(heap[i].items, v))

\* m.set(k, v)
MapSet ==
    \E i \in Nodes, k \in SlotValues, v \in SlotValues :
        /\ heap[i].kind = "map"
        /\ Store(i, Put(heap[i].items, k, v))

\* s.add(v): an element already present is not added again
SetAdd ==
    \E i \in Nodes, v \in SlotValues :
        /\ heap[i].kind = "set"
        /\ \A j \in 1..Len(heap[i].items) : heap[i].items[j] # v
        /\ Store(i, Append(heap[i].items, v))

\* transformObjectForSerialization(v)
Serialize ==
    \E v \in RootValues :
        /\ phase = "build"
        /\ phase' = "serialized"
        /\ root' = v
        /\ result' = serialize(heap, v)
        /\ UNCHANGED <<heap, calls, fetchLog>>

NextSerializer == SetField \/ Push \/ MapSet \/ SetAdd \/ Serialize

SpecSerializer == InitSerializer /\ [][NextSerializer]_vars

-----------------------------------------------------------------------------
(* JSON.stringify, as the verb methods apply it to the serializer's result *)

Text(s) == [k |-> "text", s |-> s, thrown |-> NoError]
NoText == [k |-> "undefined", s |-> "", thrown |-> NoError]
ThrewText(e) == [k |-> "throw", s |-> "", thrown |-> e]

BigIntTypeError == Error("TypeError", "Do not know how to serialize a BigInt")

\* QuoteJSONString for strings that need no escape
Quote(s) == "\"" \o s \o "\""

RECURSIVE SerializeJSONProperty(_)
RECURSIVE SerializeJSONArray(_, _)
RECURSIVE SerializeJSONObject(_, _, _)

\* the elements from position i on, comma separated; undefined becomes null
SerializeJSONArray(items, i) ==
    IF i > Len(items) THEN Text("")
    ELSE LET e == SerializeJSONProperty(items[i])
             rest == SerializeJSONArray(items, i + 1)
         IN  IF e.k = "throw" THEN e
             ELSE IF rest.k = "throw" THEN rest
             ELSE Text((IF e.k = "undefined" THEN "null" ELSE e.s)
                         \o (IF i < Len(items) THEN "," ELSE "") \o rest.s)

\* the members from position i on appended to acc; a member whose value is
\* undefined is left out
SerializeJSONObject(fields, i, acc) ==
    IF i > Len(fields) THEN Text(acc)
    ELSE LET e == SerializeJSONProperty(fields[i].val)
         IN  IF e.k = "throw" THEN e
             ELSE IF e.k = "undefined" THEN SerializeJSONObject(fields, i + 1, acc)
             ELSE SerializeJSONObject(fields, i + 1,
                     (IF acc = "" THEN "" ELSE acc \o ",")
                         \o Quote(fields[i].key) \o ":" \o e.s)

SerializeJSONProperty(v) ==
    CASE v.t = "undefined" -> NoText
      [] v.t = "null" -> Text("null")
      [] v.t = "boolean" -> Text(IF v.b THEN "true" ELSE "false")
      [] v.t = "number" -> Text(IntToString(v.n))
      [] v.t = "string" -> Text(Quote(v.s))
      [] v.t = "bigint" -> ThrewText(BigIntTypeError)
      [] v.t = "date" -> IF v.nan THEN Text("null") ELSE Text(Quote(toISOString(v.ms)))
      [] v.t = "array" ->
            LET r == SerializeJSONArray(v.items, 1)
            IN  IF r.k = "throw" THEN r ELSE Text("[" \o r.s \o "]")
      [] v.t = "object" ->
            LET r == SerializeJSONObject(v.fields, 1, "")
            IN  IF r.k = "throw" THEN r ELSE Text("{" \o r.s \o "}")

JSONStringify(v) == SerializeJSONProperty(v)

-----------------------------------------------------------------------------
(* A response body on the wire is a sequence of lexical tokens; response.text() *)
(* spells them out and response.json() parses them (JSON.parse)               *)

P(s) == [k |-> "punct", s |-> s]
TStr(s) == [k |-> "str", s |-> s]
TNum(n) == [k |-> "num", n |-> n]

Spell(tk) ==
    CASE tk.k = "punct" -> tk.s
      [] tk.k = "str" -> Quote(tk.s)
      [] tk.k = "num" -> IntToString(tk.n)

RECURSIVE ResponseText(_)
ResponseText(toks) ==
    IF toks = <<>> THEN "" ELSE Spell(toks[1]) \o ResponseText(Tail(toks))

Parsed(v, next) == [ok |-> TRUE, val |-> v, next |-> next]
SyntaxFault == [ok |-> FALSE, val |-> Undefined, next |-> 0]

IsTok(toks, i, tk) == i <= Len(toks) /\ toks[i] = tk

RECURSIVE ParseValue(_, _)
RECURSIVE ParseElements(_, _, _)
RECURSIVE ParseMembers(_, _, _)

ParseElements(toks, i, acc) ==
    LET v == ParseValue(toks, i)
    IN  IF ~v.ok THEN SyntaxFault
        ELSE IF IsTok(toks, v.next, P(","))
            THEN ParseElements(toks, v.next + 1, Append(acc, v.val))
        ELSE IF IsTok(toks, v.next, P("]"))
            THEN Parsed(Arr(Append(acc, v.val)), v.next + 1)
        ELSE SyntaxFault

ParseMembers(toks, i, acc) ==
    IF ~(i <= Len(toks) /\ toks[i].k = "str" /\ IsTok(toks, i + 1, P(":")))
    THEN SyntaxFault
    ELSE LET v == ParseValue(toks, i + 2)
         IN  IF ~v.ok THEN SyntaxFault
             ELSE IF IsTok(toks, v.next, P(","))
                 THEN ParseMembers(toks, v.next + 1,
                                   Append(acc, Field(toks[i].s, v.val)))
             ELSE IF IsTok(toks, v.next, P("}"))
                 THEN Parsed(Obj(Append(acc, Field(toks[i].s, v.val))), v.next + 1)
             ELSE SyntaxFault

ParseValue(toks, i) ==
    IF i > Len(toks) THEN SyntaxFault
    ELSE IF toks[i].k = "str" THEN Parsed(Str(toks[i].s), i + 1)
    ELSE IF toks[i].k = "num" THEN Parsed(Num(toks[i].n), i + 1)
    ELSE IF toks[i] = P("[") THEN
        IF IsTok(toks, i + 1, P("]")) THEN Parsed(Arr(<<>>), i + 2)
        ELSE ParseElements(toks, i + 1, <<>>)
    ELSE IF toks[i] = P("{") THEN
        IF IsTok(toks, i + 1, P("}")) THEN Parsed(Obj(<<>>), i + 2)
        ELSE ParseMembers(toks, i + 1, <<>>)
    ELSE SyntaxFault

\* JSON.parse of the whole body: one value and nothing after it
JSONParse(toks) ==
    LET v == ParseValue(toks, 1)
    IN  IF v.ok /\ v.next = Len(toks) + 1 THEN v ELSE SyntaxFault

-----------------------------------------------------------------------------
(* FetchClientError (src/unnamed/part_000) *)

FetchClientError(message, options) ==
    [name |-> "FetchClientError",
     message |-> message,
     config |-> options.config,
     code |-> options.code,
     request |-> options.request,
     response |-> options.response,
     data |-> options.data,
     isAxiosError |-> TRUE]

-----------------------------------------------------------------------------
(* The request dispatcher: the verb methods and handleResponse *)

\* number of verb calls in flight at once on one client
MaxCalls == 2

baseURL == "https://api.example.com"

EmptyObject == [k \in {} |-> ""]

\* { ...config.headers }: the own properties of a plain headers object, none
\* when config.headers is undefined
SpreadHeaders(config) ==
    IF "headers" \in DOMAIN config THEN config.headers ELSE EmptyObject

ObjectLiteralSpreadLast(spread, own) == spread @@ own

\* { ...spread, k1: v1, ... }: a property written later in the literal
\* replaces a spread property of the same name
ObjectLiteral(spread, own) == own @@ spread

\* headers of post, put and patch
JsonHeaders(config) ==
    ObjectLiteral(SpreadHeaders(config), "Content-Type" :> "application/json")

\* JSON.stringify(this.transformObjectForSerialization(data))
EncodeBody(h, data) ==
    LET r == serialize(h, data)
    IN  IF r.thrown # NoError THEN [thrown |-> r.thrown, body |-> Undefined]
        ELSE LET j == JSONStringify(r.out)
             IN  IF j.k = "throw" THEN [thrown |-> j.thrown, body |-> Undefined]
                 ELSE IF j.k = "undefined" THEN [thrown |-> NoError, body |-> Undefined]
                 ELSE [thrown |-> NoError, body |-> Str(j.s)]

\* the second argument of fetch in get and delete
BodylessInit(config, method) ==
    ObjectLiteral(config, "method" :> method @@ "headers" :> SpreadHeaders(config))

\* the second argument of fetch in post, put and patch
JsonInit(config, method, body) ==
    ObjectLiteral(config,
        "method" :> method @@ "headers" :> JsonHeaders(config) @@ "body" :> body)

ResponseOkBelow400(response) == response.status >= 200 /\ response.status < 400

\* Response.ok
ResponseOk(response) == response.status >= 200 /\ response.status <= 299

\* response.headers.get("Content-Type") || ""
ContentTypeOf(response) ==
    IF response.contentType.present THEN response.contentType.parts ELSE <<>>

\* contentType.includes("application/json"), a header value being the
\* sequence of its lexemes
IsJson(response) ==
    \E i \in 1..Len(ContentTypeOf(response)) :
        ContentTypeOf(response)[i] = "application/json"

Pending == [kind |-> "pending"]
ReturnedValue(v) == [kind |-> "returned", value |-> v]
Thrown(e) == [kind |-> "threw", error |-> e]

NoResponse == [status |-> 0, contentType |-> [present |-> FALSE, parts |-> <<>>],
               body |-> <<>>, received |-> FALSE]

IdleCall ==
    [pc |-> "idle", verb |-> "", endpoint |-> "", data |-> Undefined,
     config |-> EmptyObject, inbound |-> Undefined,
     serializeFault |-> NoError, fetchFault |-> NoError,
     response |-> NoResponse, reads |-> <<>>, outcome |-> Pending]

\* The verb method runs up to `await fetch(...)`: it builds the request and
\* calls fetch, unless building the request threw.  Invoked is the call after
\* that, Fetched the record of the calls of fetch it made.
Invoked(call, verb, endpoint, data, config, inbound, thrown) ==
    IF thrown # NoError
    THEN [call EXCEPT !.pc = "done", !.verb = verb, !.endpoint = endpoint,
                      !.data = data, !.config = config, !.inbound = inbound,
                      !.serializeFault = thrown, !.outcome = Thrown(thrown)]
    ELSE [call EXCEPT !.pc = "fetching", !.verb = verb, !.endpoint = endpoint,
                      !.data = data, !.config = config, !.inbound = inbound]

FetchedWithRetry(log, endpoint, thrown, init) ==
    IF thrown # NoError THEN log
    ELSE log \o <<[url |-> baseURL \o endpoint, init |-> init],
                  [url |-> baseURL \o endpoint, init |-> init]>>

Fetched(log, endpoint, thrown, init) ==
    IF thrown # NoError THEN log
    ELSE Append(log, [url |-> baseURL \o endpoint, init |-> init])

get(c, In) ==
    \E endpoint \in In.endpoints, config \in In.configs, inbound \in In.inbounds :
        /\ calls[c].pc = "idle"
        /\ calls' = [calls EXCEPT ![c] =
                Invoked(@, "get", endpoint, Undefined, config, inbound, NoError)]
        /\ fetchLog' = [fetchLog EXCEPT ![c] =
                Fetched(@, endpoint, NoError, BodylessInit(config, "GET"))]
        /\ UNCHANGED <<heap, phase, root, result>>

delete(c, In) ==
    \E endpoint \in In.endpoints, config \in In.configs, inbound \in In.inbounds :
        /\ calls[c].pc = "idle"
        /\ calls' = [calls EXCEPT ![c] =
                Invoked(@, "delete", endpoint, Undefined, config, inbound, NoError)]
        /\ fetchLog' = [fetchLog EXCEPT ![c] =
                Fetched(@, endpoint, NoError, BodylessInit(config, "DELETE"))]
        /\ UNCHANGED <<heap, phase, root, result>>

post(c, In) ==
    \E endpoint \in In.endpoints, data \in In.payloads,
       config \in In.configs, inbound \in In.inbounds :
        LET b == EncodeBody(heap, data)
        IN  /\ calls[c].pc = "idle"
            /\ calls' = [calls EXCEPT ![c] =
                    Invoked(@, "post", endpoint, data, config, inbound, b.thrown)]
            /\ fetchLog' = [fetchLog EXCEPT ![c] =
                    Fetched(@, endpoint, b.thrown, JsonInit(config, "POST", b.body))]
            /\ UNCHANGED <<heap, phase, root, result>>

put(c, In) ==
    \E endpoint \in In.endpoints, data \in In.payloads,
       config \in In.configs, inbound \in In.inbounds :
        LET b == EncodeBody(heap, data)
        IN  /\ calls[c].pc = "idle"
            /\ calls' = [calls EXCEPT ![c] =
                    Invoked(@, "put", endpoint, data, config, inbound, b.thrown)]
            /\ fetchLog' = [fetchLog EXCEPT ![c] =
                    Fetched(@, endpoint, b.thrown, JsonInit(config, "PUT", b.body))]
            /\ UNCHANGED <<heap, phase, root, result>>

patch(c, In) ==
    \E endpoint \in In.endpoints, data \in In.payloads,
       config \in In.configs, inbound \in In.inbounds :
        LET b == EncodeBody(heap, data)
        IN  /\ calls[c].pc = "idle"
            /\ calls' = [calls EXCEPT ![c] =
                    Invoked(@, "patch", endpoint, data, config, inbound, b.thrown)]
            /\ fetchLog' = [fetchLog EXCEPT ![c] =
                    Fetched(@, endpoint, b.thrown, JsonInit(config, "PATCH", b.body))]
            /\ UNCHANGED <<heap, phase, root, result>>

\* the promise of fetch rejects (no connection): catch (error) { throw error }
FetchRejects(c) ==
    \E e \in {Error("TypeError", "Failed to fetch")} :
        /\ calls[c].pc = "fetching"
        /\ calls' = [calls EXCEPT ![c] =
                [@ EXCEPT !.pc = "done", !.fetchFault = e, !.outcome = Thrown(e)]]
        /\ UNCHANGED <<heap, phase, root, result, fetchLog>>

\* the promise of fetch resolves and handleResponse runs up to its await: it
\* starts reading the body as JSON or as text
FetchResolves(c, In) ==
    \E response \in In.responses :
        /\ calls[c].pc = "fetching"
        /\ calls' = [calls EXCEPT ![c] =
                [@ EXCEPT !.pc = "reading", !.response = response,
                          !.reads = Append(calls[c].reads,
                                IF IsJson(response) THEN "json" ELSE "text")]]
        /\ UNCHANGED <<heap, phase, root, result, fetchLog>>

\* await response.json() or await response.text()
ReadBody(response, how) ==
    IF how = "json"
    THEN LET v == JSONParse(response.body)
         IN  IF v.ok THEN [thrown |-> NoError, data |-> v.val]
             ELSE [thrown |-> Error("SyntaxError", "Unexpected token in JSON"),
                   data |-> Undefined]
    ELSE [thrown |-> NoError, data |-> Str(ResponseText(response.body))]

HandleResponseStatusFirst(response, config, how) ==
    IF ~ResponseOk(response)
    THEN Thrown(FetchClientError("Fetch error",
            [config |-> config,
             code |-> IntToString(response.status),
             request |-> Undefined,
             response |-> response,
             data |-> ReadBody(response, how).data]))
    ELSE IF ReadBody(response, how).thrown # NoError
        THEN Thrown(ReadBody(response, how).thrown)
    ELSE ReturnedValue(ReadBody(response, how).data)

\* what handleResponse(response, config) completes with once the body is read
HandleResponseOutcome(response, config, how) ==
    LET dataReceived == ReadBody(response, how)
    IN  IF dataReceived.thrown # NoError THEN Thrown(dataReceived.thrown)
        ELSE IF ~ResponseOk(response)
            THEN Thrown(FetchClientError("Fetch error",
                    [config |-> config,
                     code |-> IntToString(response.status),
                     request |-> Undefined,
                     response |-> response,
                     data |-> dataReceived.data]))
        ELSE ReturnedValue(dataReceived.data)

\* the body read settles and handleResponse finishes; the verb method returns
\* its value or rethrows its error
handleResponse(c) ==
    /\ calls[c].pc = "reading"
    /\ calls' = [calls EXCEPT ![c] =
            [@ EXCEPT !.pc = "done",
                      !.outcome = HandleResponseOutcome(calls[c].response,
                                        calls[c].config,
                                        calls[c].reads[Len(calls[c].reads)])]]
    /\ UNCHANGED <<heap, phase, root, result, fetchLog>>

-----------------------------------------------------------------------------
(* The callers and the network *)

\* 1: { name: "A", when: new Date(3723004) }   2: a FormData with one part
\* 3: a Map m with m.set("k", m)
\* 4: { id: 1, get secret() { throw new Error("denied") } }
PayloadHeap ==
    <<[kind |-> "object",
       items |-> <<Field("name", Str("A")), Field("when", DateOf(3723004))>>],
      [kind |-> "formdata", items |-> <<Field("file", Str("bytes"))>>],
      [kind |-> "map", items |-> <<Field(Str("k"), Ref(3))>>],
      [kind |-> "object",
       items |-> <<Field("id", Num(1)),
                   Field("secret", ThrowingGetter(Error("Error", "denied")))>>]>>

CallerHeaders ==
    "Content-Type" :> "text/plain" @@ "X-Trace" :> "1"
        @@ "cookie" :> "sid=caller" @@ "authorization" :> "Bearer caller"

InboundRequest ==
    [headers |-> [cookie |-> "sid=inbound", authorization |-> "Bearer inbound"]]

Header(parts) == [present |-> TRUE, parts |-> parts]
NoHeader == [present |-> FALSE, parts |-> <<>>]

Response(status, contentType, body) ==
    [status |-> status, contentType |-> contentType, body |-> body, received |-> TRUE]

UsersBody == <<P("["), P("{"), TStr("id"), P(":"), TNum(1), P("}"), P("]")>>
NotFoundBody == <<P("{"), TStr("error"), P(":"), TStr("not found"), P("}")>>
TruncatedBody == <<P("{"), TStr("error"), P(":")>>
EmptyBody == <<>>

Inputs ==
    [endpoints |-> {"/users", "/missing"},
     payloads |-> {Undefined, Ref(1), Ref(2), Ref(3), Ref(4), InvalidDate},
     configs |-> {EmptyObject,
                  [headers |-> CallerHeaders],
                  [method |-> "GET", body |-> Str("raw"), credentials |-> "include"]},
     inbounds |-> {Undefined, InboundRequest},
     responses |-> {Response(s, ct, b) :
                        s \in {200, 299, 300, 404, 500},
                        ct \in {NoHeader, Header(<<"application/json">>),
                                Header(<<"application/json", "; charset=utf-8">>),
                                Header(<<"text/plain">>)},
                        b \in {UsersBody, NotFoundBody, TruncatedBody, EmptyBody}}]

ConcurrentInputs ==
    [endpoints |-> {"/users"},
     payloads |-> {Ref(1), Ref(4)},
     configs |-> {[headers |-> CallerHeaders]},
     inbounds |-> {Undefined},
     responses |-> {Response(200, Header(<<"application/json">>), UsersBody),
                    Response(404, Header(<<"application/json">>), NotFoundBody)}]

InitClient(Calls) ==
    /\ heap = PayloadHeap
    /\ phase = "client"
    /\ root = Undefined
    /\ result = Returned(Undefined, {})
    /\ calls = [c \in Calls |-> IdleCall]
    /\ fetchLog = [c \in Calls |-> <<>>]

NextClient(Calls, In) ==
    \E c \in Calls :
        \/ get(c, In)
        \/ post(c, In)
        \/ put(c, In)
        \/ delete(c, In)
        \/ patch(c, In)
        \/ FetchRejects(c)
        \/ FetchResolves(c, In)
        \/ handleResponse(c)

\* one verb call on a client
Init == InitClient({1})
Next == NextClient({1}, Inputs)
Spec == Init /\ [][Next]_vars

\* several verb calls in flight on the same client
InitConcurrent == InitClient(1..MaxCalls)
NextConcurrent == NextClient(1..MaxCalls, ConcurrentInputs)
SpecConcurrent == InitConcurrent /\ [][NextConcurrent]_vars

-----------------------------------------------------------------------------
(* Positions in a value and in its serialization *)

Missing == [t |-> "missing"]

IsPlain(h, v) == KindOf(h, v) \in {"object", "array"}

\* the value stored at position i of a plain composite
Child(h, v, i) ==
    IF h[v.id].kind = "object" THEN h[v.id].items[i].val ELSE h[v.id].items[i]

\* the value reached from v along the positions p, through plain composites
RECURSIVE ValueAt(_, _, _)
ValueAt(h, v, p) ==
    IF p = <<>> THEN v
    ELSE IF IsPlain(h, v) /\ p[1] <= Len(h[v.id].items)
        THEN ValueAt(h, Child(h, v, p[1]), Tail(p))
    ELSE Missing

\* the part of a serialized value at the positions p
RECURSIVE OutAt(_, _)
OutAt(o, p) ==
    IF p = <<>> THEN o
    ELSE IF o.t = "array" /\ p[1] <= Len(o.items) THEN OutAt(o.items[p[1]], Tail(p))
    ELSE IF o.t = "object" /\ p[1] <= Len(o.fields)
        THEN OutAt(o.fields[p[1]].val, Tail(p))
    ELSE Missing

Paths == UNION {[1..k -> 1..MaxEdges] : k \in 1..MaxNodes}

Front(p) == SubSeq(p, 1, Len(p) - 1)

\* the composites above position p
Ancestors(h, v, p) == {ValueAt(h, v, SubSeq(p, 1, k)) : k \in 0..(Len(p) - 1)}

\* position p holds a plain composite and the traversal got as far as its
\* parent, which it serialized as an array or an object
Entered(h, v, out, p) ==
    /\ IsPlain(h, ValueAt(h, v, p))
    /\ OutAt(out, Front(p)).t \in {"array", "object"}

Targets(h, i) ==
    LET node == h[i]
        vals == IF node.kind \in {"object", "map"}
                THEN {node.items[j].val : j \in 1..Len(node.items)}
                ELSE {node.items[j] : j \in 1..Len(node.items)}
        keys == IF node.kind = "map"
                THEN {node.items[j].key : j \in 1..Len(node.items)}
                ELSE {}
    IN  {v.id : v \in {w \in vals \cup keys : IsRef(w)}}

RECURSIVE Reachable(_, _)
Reachable(h, S) ==
    LET next == S \cup UNION {Targets(h, i) : i \in S}
    IN  IF next = S THEN S ELSE Reachable(h, next)

\* v is built of plain objects, arrays and primitives only
AllPlain(h, v) ==
    IsRef(v) /\ \A i \in Reachable(h, {v.id}) : h[i].kind \in {"object", "array"}

-----------------------------------------------------------------------------
(* Claims about the serializer, checked under SpecSerializer *)

\* C2: serializing a value built of plain objects and arrays returns, however
\* it refers to itself; and in every serialization that returns, each position
\* the traversal reaches that holds a plain composite which is one of its own
\* ancestors holds the string "[Circular Reference]".
C2_CycleMarked ==
    phase = "serialized" /\ IsPlain(heap, root) =>
        /\ AllPlain(heap, root) => result.thrown = NoError
        /\ result.thrown = NoError =>
              \A p \in Paths :
                  (/\ Entered(heap, root, result.out, p)
                   /\ ValueAt(heap, root, p) \in Ancestors(heap, root, p))
                      => OutAt(result.out, p) = CircularMarker

\* an object whose first field holds an array whose first element is the
\* object again: the marker stands at that element
C2_Witness ==
    /\ phase = "serialized"
    /\ KindOf(heap, root) = "object"
    /\ KindOf(heap, ValueAt(heap, root, <<1>>)) = "array"
    /\ ValueAt(heap, root, <<1>>) # root
    /\ ValueAt(heap, root, <<1, 1>>) = root
    /\ result.thrown = NoError
    /\ OutAt(result.out, <<1, 1>>) = CircularMarker

\* JSON.parse(JSON.stringify(v)) is defined when JSON.stringify yields a text
RoundTripDefined(r) ==
    r.thrown = NoError /\ JSONStringify(r.out).k = "text"

\* C3: for every composite value, self-referential or not (a Map or a Set
\* that contains itself included), the serializer returns and
\* JSON.parse(JSON.stringify(serialize(x))) is defined.
C3_RoundTrip ==
    phase = "serialized" /\ IsRef(root) => RoundTripDefined(result)

\* C4: the marker stands only where a plain composite is reached again from
\* inside itself: a position the traversal reaches that holds a plain composite
\* which is not one of its own ancestors does not hold the marker.
C4_SiblingsNotFlagged ==
    phase = "serialized" /\ result.thrown = NoError =>
        \A p \in Paths :
            (/\ Entered(heap, root, result.out, p)
             /\ ValueAt(heap, root, p) \notin Ancestors(heap, root, p))
                => OutAt(result.out, p) # CircularMarker

-----------------------------------------------------------------------------
(* Claims about the verb methods, checked under Spec *)

WriteVerbs == {"post", "put", "patch"}

\* the request a call handed to fetch
HasFetched(c) == Len(fetchLog[c]) >= 1
RequestInit(c) == fetchLog[c][1].init

VerbMethod(verb) ==
    CASE verb = "get" -> "GET" [] verb = "post" -> "POST" [] verb = "put" -> "PUT"
      [] verb = "patch" -> "PATCH" [] verb = "delete" -> "DELETE"

StatusText(status) ==
    CASE status = 200 -> "200" [] status = 299 -> "299" [] status = 300 -> "300"
      [] status = 404 -> "404" [] status = 500 -> "500"

Is2xx(status) == status \in 200..299

\* the body of a received response decodes: it is read as text, or it is JSON
BodyDecodes(response) == ~IsJson(response) \/ JSONParse(response.body).ok

DecodedBody(response) ==
    IF IsJson(response) THEN JSONParse(response.body).val
    ELSE Str(ResponseText(response.body))

IsFetchClientError(outcome) ==
    outcome.kind = "threw" /\ outcome.error.name = "FetchClientError"

\* C1: a call of any verb that received a response whose body decodes ends,
\* when the status is not 2xx, by throwing a FetchClientError with message
\* "Fetch error", the status as a decimal string for code, the caller's
\* configuration, the response, the decoded body as data, no request, the
\* name "FetchClientError" and isAxiosError true; when the status is 2xx it
\* returns the decoded body.
C1_ErrorShape ==
    \A c \in DOMAIN calls :
        LET call == calls[c] IN
        (call.pc = "done" /\ call.response.received /\ BodyDecodes(call.response)) =>
            IF Is2xx(call.response.status)
            THEN call.outcome = ReturnedValue(DecodedBody(call.response))
            ELSE /\ call.outcome.kind = "threw"
                 /\ call.outcome.error =
                        [name |-> "FetchClientError",
                         message |-> "Fetch error",
                         code |-> StatusText(call.response.status),
                         config |-> call.config,
                         response |-> call.response,
                         data |-> DecodedBody(call.response),
                         request |-> Undefined,
                         isAxiosError |-> TRUE]

\* a post with caller headers answered 404 with the JSON body
\* {"error":"not found"}: the error carries "404" and the decoded object
C1_Witness ==
    \E c \in DOMAIN calls :
        /\ calls[c].pc = "done"
        /\ calls[c].verb = "post"
        /\ "headers" \in DOMAIN calls[c].config
        /\ calls[c].response.status = 404
        /\ calls[c].response.body = NotFoundBody
        /\ IsFetchClientError(calls[c].outcome)
        /\ calls[c].outcome.error.code = "404"
        /\ calls[c].outcome.error.data = Obj(<<Field("error", Str("not found"))>>)

IsFormData(h, v) == KindOf(h, v) = "formdata"

ContentTypeSent(c) ==
    IF "Content-Type" \in DOMAIN RequestInit(c).headers
    THEN RequestInit(c).headers["Content-Type"] ELSE ""

CallerSetsContentType(config) ==
    "headers" \in DOMAIN config /\ "Content-Type" \in DOMAIN config.headers

\* C5: for post, put and patch with a payload that is not a multipart form, a
\* Content-Type the caller's configuration supplies reaches fetch unchanged,
\* and application/json is sent only when the caller supplied none.
C5_CallerContentTypeKept ==
    \A c \in DOMAIN calls :
        (/\ HasFetched(c)
         /\ calls[c].verb \in WriteVerbs
         /\ ~IsFormData(heap, calls[c].data)
         /\ CallerSetsContentType(calls[c].config))
            => ContentTypeSent(c) = calls[c].config.headers["Content-Type"]

\* C6: for post, put and patch the body handed to fetch is the payload itself
\* when the payload is a multipart form, and then Content-Type is not
\* application/json; it is absent when no payload is supplied; and for every
\* other payload it is the JSON text of the serialized payload.
C6_BodyEncoding ==
    \A c \in DOMAIN calls :
        (HasFetched(c) /\ calls[c].verb \in WriteVerbs) =>
            IF IsFormData(heap, calls[c].data)
            THEN /\ RequestInit(c).body = calls[c].data
                 /\ ContentTypeSent(c) # "application/json"
            ELSE IF calls[c].data = Undefined
            THEN RequestInit(c).body = Undefined
            ELSE RequestInit(c).body =
                    Str(JSONStringify(serialize(heap, calls[c].data).out).s)

\* C7: a verb method called with an inbound request hands fetch headers that
\* carry the inbound request's cookie and authorization values, whatever the
\* caller's configuration put under those names.
C7_CredentialsForwarded ==
    \A c \in DOMAIN calls :
        (HasFetched(c) /\ calls[c].inbound # Undefined) =>
            /\ "cookie" \in DOMAIN RequestInit(c).headers
            /\ "authorization" \in DOMAIN RequestInit(c).headers
            /\ RequestInit(c).headers["cookie"] = calls[c].inbound.headers.cookie
            /\ RequestInit(c).headers["authorization"] =
                    calls[c].inbound.headers.authorization

\* C8 as stated: the caller's configuration is applied last, so a method or a
\* body in it replaces the verb's own method and the encoded payload.
C8_ConfigAppliedLast ==
    \A c \in DOMAIN calls :
        HasFetched(c) =>
            /\ "method" \in DOMAIN calls[c].config
                    => RequestInit(c).method = calls[c].config.method
            /\ "body" \in DOMAIN calls[c].config
                    => RequestInit(c).body = calls[c].config.body

\* C8 amended: the verb's own fields are applied last over the caller's
\* configuration.  The request handed to fetch always carries the verb's own
\* method; for post, put and patch its body is always the encoded payload
\* (absent when the payload is undefined), whatever method or body the
\* configuration contains; get and delete set no body, so there a body of the
\* configuration passes through; every other field of the configuration
\* passes through unchanged.
C8_VerbFieldsAppliedLast ==
    \A c \in DOMAIN calls :
        HasFetched(c) =>
            LET call == calls[c]
                init == RequestInit(c)
            IN  /\ init.method = VerbMethod(call.verb)
                /\ call.verb \in WriteVerbs =>
                        init.body = EncodeBody(heap, call.data).body
                /\ call.verb \notin WriteVerbs =>
                        IF "body" \in DOMAIN call.config
                        THEN init.body = call.config.body
                        ELSE "body" \notin DOMAIN init
                /\ \A k \in DOMAIN call.config \ {"method", "headers", "body"} :
                        k \in DOMAIN init /\ init[k] = call.config[k]

\* post(endpoint, data, {method: "GET", body: "raw", ...}) reached fetch with
\* method POST and the encoded payload
C8_Witness ==
    \E c \in DOMAIN calls :
        /\ HasFetched(c)
        /\ calls[c].verb = "post"
        /\ calls[c].data = Ref(1)
        /\ "method" \in DOMAIN calls[c].config
        /\ calls[c].config.method = "GET"
        /\ calls[c].config.body = Str("raw")
        /\ RequestInit(c).method = "POST"
        /\ RequestInit(c).body # Str("raw")

-----------------------------------------------------------------------------
(* Claims about calls in flight together, checked under SpecConcurrent *)

\* C10 as stated: every finished call made exactly one call of fetch.
C10_ExactlyOneFetch ==
    \A c \in DOMAIN calls :
        calls[c].pc = "done" => Len(fetchLog[c]) = 1

SerializationFaults(call) ==
    call.verb \in WriteVerbs /\ EncodeBody(heap, call.data).thrown # NoError

CallCounts ==
    \A c \in DOMAIN calls :
        LET call == calls[c] IN
        /\ Len(fetchLog[c]) <= 1
        /\ call.pc # "idle" =>
                (Len(fetchLog[c]) = 0 <=> SerializationFaults(call))
        /\ SerializationFaults(call) => call.pc = "done" /\ call.outcome.kind = "threw"
        /\ Len(call.reads) <= 1
        /\ Len(call.reads) = 1 <=> call.response.received
        /\ call.pc = "done" <=> call.outcome.kind \in {"returned", "threw"}
        /\ call.outcome.kind = "returned" => call.response.received

StepsOfOneCall ==
    \A c \in DOMAIN calls :
        (calls'[c] # calls[c] \/ fetchLog'[c] # fetchLog[c]) =>
            \A d \in DOMAIN calls \ {c} :
                calls'[d] = calls[d] /\ fetchLog'[d] = fetchLog[d]

\* C10 amended: every invocation of a verb method calls fetch at most once:
\* exactly once when the payload serializes, and not at all when the
\* serializer faults, in which case the fault reaches the caller before any
\* request is made.  It never retries, reads the body of a received response
\* exactly once (as JSON or as text, never both) and no body otherwise, and
\* completes with the decoded payload or with an error.  A step of one call
\* changes nothing of any other call on the same client.
C10_AtMostOneFetch == [](CallCounts) /\ [][StepsOfOneCall]_vars

\* two calls on one client, both finished with one fetch each: one returned
\* the decoded payload, the other threw the FetchClientError of a 404
C10_Witness ==
    /\ {1, 2} \subseteq DOMAIN calls
    /\ calls[1].pc = "done" /\ calls[2].pc = "done"
    /\ Len(fetchLog[1]) = 1 /\ Len(fetchLog[2]) = 1
    /\ calls[1].outcome.kind = "returned"
    /\ IsFetchClientError(calls[2].outcome)

====
